---------------------------- MODULE Spec2Model ----------------------------
(***************************************************************************)
(* Model of the Lifeblood equipment-check form (src/src/app.py): one       *)
(* Streamlit script run per user interaction, its validation block, the    *)
(* statement-execution helper execute_sql with its poll loop, the insert   *)
(* and recent-submissions statements, and the warehouse table they act on. *)
(*                                                                         *)
(* Text that the program trims, parses or formats is a sequence of         *)
(* one-character strings; values that are only passed through (enum        *)
(* labels, messages) are TLA+ strings.  Optional and SQL values are tagged *)
(* records [t |-> ...].                                                    *)
(***************************************************************************)
EXTENDS Integers, Sequences, FiniteSets, TLC

(***************************************************************************)
(* Bounds of the model.                                                    *)
(***************************************************************************)
MaxNumLen == 3      \* longest raw temperature / pressure text enumerated
MaxRows == 2        \* rows the table may hold before submissions stop
MaxPolls == 1       \* polls of one execute_sql call that are counted

(***************************************************************************)
(* Text: str.strip, str.lower                                              *)
(***************************************************************************)
IsSpace(c) == c = " "

RECURSIVE LStrip(_)
LStrip(s) == IF s # <<>> /\ IsSpace(Head(s)) THEN LStrip(Tail(s)) ELSE s

RECURSIVE RStrip(_)
RStrip(s) ==
    IF s # <<>> /\ IsSpace(s[Len(s)]) THEN RStrip(SubSeq(s, 1, Len(s) - 1)) ELSE s

Strip(s) == RStrip(LStrip(s))

LowerChar(c) ==
    CASE c = "T" -> "t" [] c = "R" -> "r" [] c = "U" -> "u" [] c = "E" -> "e"
      [] c = "F" -> "f" [] c = "A" -> "a" [] c = "L" -> "l" [] c = "S" -> "s"
      [] c = "N" -> "n" [] c = "I" -> "i" [] c = "Y" -> "y"
      [] OTHER -> c

Lower(s) == [i \in 1..Len(s) |-> LowerChar(s[i])]

(***************************************************************************)
(* Decimal digits                                                          *)
(***************************************************************************)
DigitChars == <<"0", "1", "2", "3", "4", "5", "6", "7", "8", "9">>

Digits == {DigitChars[i] : i \in 1..10}

DigitVal(c) == (CHOOSE i \in 1..10 : DigitChars[i] = c) - 1

DigitChar(n) == DigitChars[n + 1]

AllDigits(s) == \A i \in 1..Len(s) : s[i] \in Digits

RECURSIVE DigitsToNat(_)
DigitsToNat(s) ==
    IF s = <<>> THEN 0
    ELSE 10 * DigitsToNat(SubSeq(s, 1, Len(s) - 1)) + DigitVal(s[Len(s)])

RECURSIVE NatToDigits(_)
NatToDigits(n) ==
    IF n < 10 THEN <<DigitChar(n)>>
    ELSE NatToDigits(n \div 10) \o <<DigitChar(n % 10)>>

RECURSIVE ZeroPad(_, _)
ZeroPad(s, width) == IF Len(s) >= width THEN s ELSE ZeroPad(<<"0">> \o s, width)

RECURSIVE DropTrailingZeros(_)
DropTrailingZeros(s) ==
    IF s # <<>> /\ s[Len(s)] = "0" THEN DropTrailingZeros(SubSeq(s, 1, Len(s) - 1))
    ELSE s

(***************************************************************************)
(* float(text) and str(float).  A float is the record                      *)
(* [kind, neg, ip, frac]: "finite" with sign, integer part and the         *)
(* fractional digits without trailing zeros, or one of the special values  *)
(* "inf" and "nan" that float() also accepts; two records are equal        *)
(* exactly when the doubles print alike (-0.0 is kept apart from 0.0, as   *)
(* repr does).  The texts enumerated have no exponent marker and no "_",   *)
(* and fewer than five fractional digits, so repr never switches to the    *)
(* exponent form.                                                          *)
(***************************************************************************)
Unsigned(t) == IF t # <<>> /\ t[1] \in {"+", "-"} THEN Tail(t) ELSE t

DotPositions(b) == {i \in 1..Len(b) : b[i] = "."}

IsDecimalLiteral(t) ==
    LET b == Unsigned(t)
    IN  /\ \A i \in 1..Len(b) : b[i] \in Digits \cup {"."}
        /\ Cardinality(DotPositions(b)) <= 1
        /\ \E i \in 1..Len(b) : b[i] \in Digits

InfinityNames == {<<"i", "n", "f">>, <<"i", "n", "f", "i", "n", "i", "t", "y">>}

NanNames == {<<"n", "a", "n">>}

\* float(t) returns rather than raising ValueError
IsFloatLiteral(t) ==
    \/ IsDecimalLiteral(t)
    \/ Lower(Unsigned(t)) \in InfinityNames \cup NanNames

FloatOf(t) ==
    LET b == Unsigned(t)
        dot == IF DotPositions(b) = {} THEN Len(b) + 1
               ELSE CHOOSE i \in DotPositions(b) : TRUE
        neg == t # <<>> /\ t[1] = "-"
    IN  IF Lower(b) \in NanNames
        THEN [kind |-> "nan", neg |-> FALSE, ip |-> 0, frac |-> <<>>]
        ELSE IF Lower(b) \in InfinityNames
        THEN [kind |-> "inf", neg |-> neg, ip |-> 0, frac |-> <<>>]
        ELSE [kind |-> "finite", neg |-> neg,
              ip |-> DigitsToNat(SubSeq(b, 1, dot - 1)),
              frac |-> DropTrailingZeros(SubSeq(b, dot + 1, Len(b)))]

PyStrFloat(v) ==
    IF v.kind = "nan" THEN <<"n", "a", "n">>
    ELSE (IF v.neg THEN <<"-">> ELSE <<>>)
             \o (IF v.kind = "inf" THEN <<"i", "n", "f">>
                 ELSE NatToDigits(v.ip) \o <<".">>
                          \o (IF v.frac = <<>> THEN <<"0">> ELSE v.frac))

(***************************************************************************)
(* date.fromisoformat(text) and date.isoformat(): the YYYY-MM-DD form.     *)
(***************************************************************************)
IsLeap(y) == y % 4 = 0 /\ (y % 100 # 0 \/ y % 400 = 0)

DaysInMonth(y, m) ==
    IF m = 2 THEN (IF IsLeap(y) THEN 29 ELSE 28)
    ELSE IF m \in {4, 6, 9, 11} THEN 30 ELSE 31

IsIsoDate(t) ==
    /\ Len(t) = 10
    /\ t[5] = "-" /\ t[8] = "-"
    /\ AllDigits(SubSeq(t, 1, 4)) /\ AllDigits(SubSeq(t, 6, 7))
    /\ AllDigits(SubSeq(t, 9, 10))
    /\ LET y == DigitsToNat(SubSeq(t, 1, 4))
           m == DigitsToNat(SubSeq(t, 6, 7))
           d == DigitsToNat(SubSeq(t, 9, 10))
       IN  y >= 1 /\ m \in 1..12 /\ d >= 1 /\ d <= DaysInMonth(y, m)

FromIsoFormat(t) ==
    [y |-> DigitsToNat(SubSeq(t, 1, 4)),
     m |-> DigitsToNat(SubSeq(t, 6, 7)),
     d |-> DigitsToNat(SubSeq(t, 9, 10))]

IsoFormat(dt) ==
    ZeroPad(NatToDigits(dt.y), 4) \o <<"-">> \o ZeroPad(NatToDigits(dt.m), 2)
        \o <<"-">> \o ZeroPad(NatToDigits(dt.d), 2)


(***************************************************************************)
(* Optional values (Python None) and SQL values                            *)
(***************************************************************************)
None == [t |-> "none"]

Some(v) == [t |-> "some", v |-> v]

SqlNull == [t |-> "null"]

SqlStr(v) == [t |-> "str", v |-> v]

TrueText == <<"t", "r", "u", "e">>

FalseText == <<"f", "a", "l", "s", "e">>

bool_to_str(value) == IF value THEN TrueText ELSE FalseText

(***************************************************************************)
(* The validation block of one submission (app.py, "if submitted:").       *)
(* A form f is the record of the widgets' raw values.                      *)
(***************************************************************************)
required_fields(f) ==
    << [label |-> "Facility name", value |-> f.facility_name],
       [label |-> "Inspector name", value |-> f.nurse_name],
       [label |-> "Equipment ID", value |-> f.machine_id],
       [label |-> "Location", value |-> f.room_location] >>

IsBlank(e) == Strip(e.value) = <<>>

RequiredErrors(f) ==
    LET missing == SelectSeq(required_fields(f), IsBlank)
    IN  [i \in 1..Len(missing) |-> missing[i].label \o " is required."]

CalibrationError == "Calibration due date must follow YYYY-MM-DD format."

TemperatureError == "Temperature must be recorded as a number (e.g. 4.5)."

PressureError == "Pressure must be recorded as a number (e.g. 101.3)."

FollowUpError == "Provide follow-up actions when follow-up is marked as required."

calibration_due_value(f) ==
    LET t == Strip(f.calibration_due_raw)
    IN  IF t # <<>> /\ IsIsoDate(t) THEN Some(IsoFormat(FromIsoFormat(t))) ELSE None

CalibrationErrors(f) ==
    LET t == Strip(f.calibration_due_raw)
    IN  IF t # <<>> /\ ~IsIsoDate(t) THEN <<CalibrationError>> ELSE <<>>

\* temperature_value / pressure_value: "" unless the text parses
NumericValue(raw) ==
    LET t == Strip(raw)
    IN  IF t # <<>> /\ IsFloatLiteral(t) THEN PyStrFloat(FloatOf(t)) ELSE <<>>

NumericErrors(raw, message) ==
    LET t == Strip(raw)
    IN  IF t # <<>> /\ ~IsFloatLiteral(t) THEN <<message>> ELSE <<>>

\* variant: the follow-up rule left out of the validation
FollowUpErrorsUnchecked(f) == <<>>

FollowUpErrors(f) ==
    IF f.follow_up_required /\ Strip(f.follow_up_actions) = <<>>
    THEN <<FollowUpError>> ELSE <<>>

ValidationErrors(f) ==
    RequiredErrors(f) \o CalibrationErrors(f)
        \o NumericErrors(f.temperature_raw, TemperatureError)
        \o NumericErrors(f.pressure_raw, PressureError)
        \o FollowUpErrors(f)

BuildPayload(f, email) ==
    [inspection_date |-> IsoFormat(f.inspection_date),
     facility_name |-> Strip(f.facility_name),
     nurse_name |-> Strip(f.nurse_name),
     machine_type |-> f.machine_type,
     machine_id |-> Strip(f.machine_id),
     room_location |-> Strip(f.room_location),
     power_status |-> f.power_status,
     alarms_functional |-> bool_to_str(f.alarms_functional),
     calibration_due_date |->
         (IF calibration_due_value(f).t = "none" THEN <<>>
          ELSE calibration_due_value(f).v),
     calibration_confirmed |-> bool_to_str(f.calibration_confirmed),
     temperature_celsius |-> NumericValue(f.temperature_raw),
     pressure_kpa |-> NumericValue(f.pressure_raw),
     cleaning_status |-> f.cleaning_status,
     issues_noted |-> Strip(f.issues_noted),
     follow_up_required |-> bool_to_str(f.follow_up_required),
     follow_up_actions |-> Strip(f.follow_up_actions),
     user_email |-> (IF email.t = "none" THEN <<>> ELSE email.v)]

(***************************************************************************)
(* The INSERT statement's VALUES list, evaluated by the warehouse.         *)
(***************************************************************************)
ToDate(text) ==
    IF IsIsoDate(Strip(text)) THEN [t |-> "date", v |-> FromIsoFormat(Strip(text))]
    ELSE SqlNull

NullIf(text, other) == IF text = other THEN SqlNull ELSE SqlStr(text)

TryCastDouble(sv) ==
    IF sv.t = "null" THEN SqlNull
    ELSE IF IsFloatLiteral(Strip(sv.v))
         THEN [t |-> "double", v |-> FloatOf(Strip(sv.v))]
         ELSE SqlNull

SqlIsTrue(text) == Lower(text) = TrueText

InsertValues(p, now) ==
    [inspection_date |-> ToDate(p.inspection_date),
     facility_name |-> p.facility_name,
     nurse_name |-> p.nurse_name,
     machine_type |-> p.machine_type,
     machine_id |-> p.machine_id,
     room_location |-> p.room_location,
     power_status |-> p.power_status,
     alarms_functional |-> SqlIsTrue(p.alarms_functional),
     calibration_due_date |->
         (IF p.calibration_due_date = <<>> THEN SqlNull
          ELSE ToDate(p.calibration_due_date)),
     calibration_confirmed |-> SqlIsTrue(p.calibration_confirmed),
     temperature_celsius |-> TryCastDouble(NullIf(p.temperature_celsius, <<>>)),
     pressure_kpa |-> TryCastDouble(NullIf(p.pressure_kpa, <<>>)),
     cleaning_status |-> p.cleaning_status,
     issues_noted |-> p.issues_noted,
     follow_up_required |-> SqlIsTrue(p.follow_up_required),
     follow_up_actions |-> p.follow_up_actions,
     user_email |-> p.user_email,
     submitted_at |-> now]

(***************************************************************************)
(* The SELECT statement of fetch_recent_submissions, evaluated by the      *)
(* warehouse: the eight display columns, ORDER BY submitted_at DESC,       *)
(* LIMIT limit.  Rows with equal submitted_at may come in either order.    *)
(***************************************************************************)
SelectColumns(row) ==
    [inspection_date |-> row.inspection_date,
     facility_name |-> row.facility_name,
     machine_type |-> row.machine_type,
     machine_id |-> row.machine_id,
     power_status |-> row.power_status,
     follow_up_required |-> row.follow_up_required,
     submitted_at |-> row.submitted_at,
     user_email |-> row.user_email]

\* variant: ORDER BY submitted_at ascending
OrderedAscending(tbl, r) ==
    \A i \in 1..(Len(r) - 1) : tbl[r[i]].submitted_at <= tbl[r[i + 1]].submitted_at

OrderedDescending(tbl, r) ==
    \A i \in 1..(Len(r) - 1) : tbl[r[i]].submitted_at >= tbl[r[i + 1]].submitted_at

LimitCount(n, limit) == IF limit < n THEN limit ELSE n

\* the orders in which the statement may return the row positions
QueryOrders(tbl, limit) ==
    LET n == Len(tbl)
        k == LimitCount(n, limit)
    IN  {r \in [1..k -> 1..n] :
            /\ \A i, j \in 1..k : i # j => r[i] # r[j]
            /\ OrderedDescending(tbl, r)
            /\ \A m \in (1..n) \ {r[i] : i \in 1..k} :
                   \A i \in 1..k : tbl[r[i]].submitted_at >= tbl[m].submitted_at}

QueryResults(tbl, limit) ==
    {[i \in 1..Len(r) |-> SelectColumns(tbl[r[i]])] : r \in QueryOrders(tbl, limit)}

(***************************************************************************)
(* State                                                                   *)
(***************************************************************************)
Sessions == {"s1", "s2"}

VARIABLES
    pc,             \* per session: position in the script run
    form,           \* per session: the widgets' values and the submit button
    user_email,     \* per session: result of get_current_user_email()
    errors,         \* per session: the errors list of the validation block
    payload,        \* per session: the payload dict (None until built)
    shown,          \* per session: st.error / st.success / st.toast / st.info calls
    session_state,  \* per session: whether st.session_state["submitted_at"] is set
    frame,          \* per session: locals of the running execute_sql call
    recent,         \* per session: value of `recent` (unset, None, or the table)
    uncaught,       \* per session: exception that ended the script run, if any
    run,            \* per session: calls made in the current run (history)
    written,        \* per session: the row this run's INSERT added, if any (history)
    table,          \* the warehouse table, in insertion order
    clock,          \* the warehouse's current_timestamp()
    statements      \* per session: its latest statement at the warehouse

vars == <<pc, form, user_email, errors, payload, shown, session_state, frame,
          recent, uncaught, run, written, table, clock, statements>>

pageVars == <<form, user_email, errors, payload, shown, session_state, recent,
              uncaught>>

storeVars == <<table, clock, statements, written>>

DEFAULT_LIMIT == 20

BaseForm ==
    [submitted |-> FALSE,
     inspection_date |-> [y |-> 2025, m |-> 1, d |-> 15],
     facility_name |-> <<"S">>,
     nurse_name |-> <<"A">>,
     machine_type |-> "Centrifuge",
     machine_id |-> <<"F", "X">>,
     room_location |-> <<"R", "3">>,
     power_status |-> "OK",
     alarms_functional |-> TRUE,
     calibration_confirmed |-> TRUE,
     calibration_due_raw |-> <<>>,
     temperature_raw |-> <<"4", ".", "5">>,
     pressure_raw |-> <<>>,
     cleaning_status |-> "Sanitized",
     issues_noted |-> <<>>,
     follow_up_required |-> FALSE,
     follow_up_actions |-> <<>>]

NoFrame ==
    [ctx |-> "none", statement |-> "none", limit |-> 0, status |-> [t |-> "unset"],
     raised |-> None, polls |-> 0]

NoStatement ==
    [kind |-> "none", state |-> "none", error |-> None, payload |-> None,
     limit |-> 0, result |-> <<>>]

NoCalls == [identity |-> 0, inserts |-> 0, selects |-> 0, chunks |-> 0]

Unset == [t |-> "unset"]

\* The state in which session "s1" is at position p of a run started with
\* form f (e and calls: what the run has done so far); everything else as
\* left by the set-up script: an empty table.
InitAt(p, f, e, calls) ==
    /\ pc = [s \in Sessions |-> IF s = "s1" THEN p ELSE "idle"]
    /\ form = [s \in Sessions |-> IF s = "s1" THEN f ELSE BaseForm]
    /\ user_email = [s \in Sessions |-> IF s = "s1" THEN e ELSE None]
    /\ errors = [s \in Sessions |-> <<>>]
    /\ payload = [s \in Sessions |-> None]
    /\ shown = [s \in Sessions |-> <<>>]
    /\ session_state = [s \in Sessions |-> FALSE]
    /\ frame = [s \in Sessions |-> NoFrame]
    /\ recent = [s \in Sessions |-> Unset]
    /\ uncaught = [s \in Sessions |-> None]
    /\ run = [s \in Sessions |-> IF s = "s1" THEN calls ELSE NoCalls]
    /\ written = [s \in Sessions |-> None]
    /\ table = <<>>
    /\ clock = 0
    /\ statements = [s \in Sessions |-> NoStatement]

Init == InitAt("idle", BaseForm, None, NoCalls)

(***************************************************************************)
(* The script run of one session, top to bottom.                           *)
(***************************************************************************)
\* sessions whose submission may still add a row
InFlight == {t \in Sessions : pc[t] # "idle" /\ form[t].submitted}

\* A user interaction reruns the script with the widgets' values f.
Rerun(s, f) ==
    /\ pc[s] = "idle"
    /\ f.submitted => Len(table) + Cardinality(InFlight) < MaxRows
    /\ pc' = [pc EXCEPT ![s] = "get_current_user_email"]
    /\ form' = [form EXCEPT ![s] = f]
    /\ errors' = [errors EXCEPT ![s] = <<>>]
    /\ payload' = [payload EXCEPT ![s] = None]
    /\ shown' = [shown EXCEPT ![s] = <<>>]
    /\ recent' = [recent EXCEPT ![s] = Unset]
    /\ uncaught' = [uncaught EXCEPT ![s] = None]
    /\ run' = [run EXCEPT ![s] = NoCalls]
    /\ written' = [written EXCEPT ![s] = None]
    /\ frame' = [frame EXCEPT ![s] = NoFrame]
    /\ statements' = [statements EXCEPT ![s] = NoStatement]
    /\ UNCHANGED <<user_email, session_state, table, clock>>

\* user_email = get_current_user_email(): asks the workspace who the user is
GetCurrentUserEmail(s, email) ==
    /\ pc[s] = "get_current_user_email"
    /\ user_email' = [user_email EXCEPT ![s] = email]
    /\ run' = [run EXCEPT ![s].identity = @ + 1]
    /\ pc' = [pc EXCEPT ![s] = "if_submitted"]
    /\ UNCHANGED <<form, errors, payload, shown, session_state, frame, recent,
                   uncaught, storeVars>>

StError(text) == [kind |-> "error", text |-> text]

\* if submitted: validate, then report the errors or build the payload
\* variant: a submission that shows its errors and inserts all the same
SubmitNoFailFast(s) ==
    /\ pc[s] = "if_submitted"
    /\ IF ~form[s].submitted
       THEN /\ pc' = [pc EXCEPT ![s] = "divider"]
            /\ UNCHANGED <<errors, payload, shown, frame>>
       ELSE LET errs == ValidationErrors(form[s])
            IN  /\ errors' = [errors EXCEPT ![s] = errs]
                /\ shown' = [shown EXCEPT ![s] =
                                 [i \in 1..Len(errs) |-> StError(errs[i])]]
                /\ payload' = [payload EXCEPT ![s] =
                                   Some(BuildPayload(form[s], user_email[s]))]
                /\ frame' = [frame EXCEPT ![s] =
                                 [NoFrame EXCEPT !.ctx = "insert",
                                                 !.statement = "insert"]]
                /\ pc' = [pc EXCEPT ![s] = "execute_statement"]
    /\ UNCHANGED <<form, user_email, session_state, recent, uncaught, run, storeVars>>

Submit(s) ==
    /\ pc[s] = "if_submitted"
    /\ IF ~form[s].submitted
       THEN /\ pc' = [pc EXCEPT ![s] = "divider"]
            /\ UNCHANGED <<errors, payload, shown, frame>>
       ELSE LET errs == ValidationErrors(form[s])
            IN  /\ errors' = [errors EXCEPT ![s] = errs]
                /\ IF Len(errs) > 0
                   THEN /\ shown' = [shown EXCEPT ![s] =
                                        [i \in 1..Len(errs) |-> StError(errs[i])]]
                        /\ pc' = [pc EXCEPT ![s] = "divider"]
                        /\ UNCHANGED <<payload, frame>>
                   ELSE /\ payload' = [payload EXCEPT ![s] =
                                          Some(BuildPayload(form[s], user_email[s]))]
                        /\ frame' = [frame EXCEPT ![s] =
                                        [NoFrame EXCEPT !.ctx = "insert",
                                                        !.statement = "insert"]]
                        /\ pc' = [pc EXCEPT ![s] = "execute_statement"]
                        /\ UNCHANGED shown
    /\ UNCHANGED <<form, user_email, session_state, recent, uncaught, run, storeVars>>

(***************************************************************************)
(* The warehouse                                                           *)
(***************************************************************************)
ErrorMessages == {None, Some("warehouse error")}

SdkError == "statement execution API unavailable"

Succeeded == {"SUCCEEDED", "CLOSED"}     \* CLOSED: succeeded, result released

\* Statement st of session s moves to state target (error err): a statement
\* that succeeds takes effect at that instant.
\* variant: a warehouse that drops an insert whose fields are already stored
TransitionDedup(s, st, target, err) ==
    IF target \in Succeeded /\ st.state \notin Succeeded
    THEN IF st.kind = "insert"
         THEN \E adv \in {0, 1} :
                  LET row == InsertValues(st.payload.v, clock + adv)
                      Stored(i) == [table[i] EXCEPT !.submitted_at = 0]
                                       = [row EXCEPT !.submitted_at = 0]
                  IN  /\ clock' = clock + adv
                      /\ table' = IF \E i \in 1..Len(table) : Stored(i)
                                  THEN table ELSE Append(table, row)
                      /\ written' = [written EXCEPT ![s] = Some(row)]
                      /\ statements' = [statements EXCEPT ![s] =
                                           [st EXCEPT !.state = target]]
         ELSE /\ \E r \in QueryResults(table, st.limit) :
                     statements' = [statements EXCEPT ![s] =
                                       [st EXCEPT !.state = target, !.result = r]]
              /\ UNCHANGED <<table, clock, written>>
    ELSE /\ statements' = [statements EXCEPT ![s] =
                              [st EXCEPT !.state = target, !.error = err]]
         /\ UNCHANGED <<table, clock, written>>

Transition(s, st, target, err) ==
    IF target \in Succeeded /\ st.state \notin Succeeded
    THEN IF st.kind = "insert"
         THEN \E adv \in {0, 1} :
                  LET row == InsertValues(st.payload.v, clock + adv)
                  IN  /\ clock' = clock + adv
                      /\ table' = Append(table, row)
                      /\ written' = [written EXCEPT ![s] = Some(row)]
                      /\ statements' = [statements EXCEPT ![s] =
                                           [st EXCEPT !.state = target]]
         ELSE /\ \E r \in QueryResults(table, st.limit) :
                     statements' = [statements EXCEPT ![s] =
                                       [st EXCEPT !.state = target, !.result = r]]
              /\ UNCHANGED <<table, clock, written>>
    ELSE /\ statements' = [statements EXCEPT ![s] =
                              [st EXCEPT !.state = target, !.error = err]]
         /\ UNCHANGED <<table, clock, written>>

NextStates(state) ==
    CASE state = "PENDING" -> {"RUNNING", "SUCCEEDED", "FAILED", "CANCELED"}
      [] state = "RUNNING" -> {"SUCCEEDED", "FAILED", "CANCELED"}
      [] state = "SUCCEEDED" -> {"CLOSED"}
      [] OTHER -> {}

ErrorsOf(target) == IF target = "FAILED" THEN ErrorMessages ELSE {None}

\* The warehouse works on the statement of session s, moving it to one of
\* the states in targets.  (Steps nobody can observe are left out: a
\* query's progress, or the release of a result, once the caller has
\* stopped polling.)
Warehouse(s, targets) ==
    /\ statements[s].kind # "none"
    /\ (statements[s].kind = "select" \/ statements[s].state = "SUCCEEDED")
           => pc[s] \in {"while", "get_statement"}
    /\ \E target \in NextStates(statements[s].state) \cap targets :
           \E err \in ErrorsOf(target) : Transition(s, statements[s], target, err)
    /\ UNCHANGED <<pc, pageVars, frame, run>>

(***************************************************************************)
(* execute_sql                                                             *)
(***************************************************************************)
Replies ==
    {"raise", "nostatus", "PENDING", "RUNNING", "SUCCEEDED", "FAILED", "CANCELED",
     "CLOSED"}

ReturnPoint(ctx) == IF ctx = "insert" THEN "insert_return" ELSE "fetch_return"

StatusOf(st) == Some([state |-> st.state, error |-> st.error])

\* response = execute_statement(..., wait_timeout="5s"); status = response.status
ExecuteStatement(s, reply) ==
    /\ pc[s] = "execute_statement"
    /\ run' = [run EXCEPT ![s] =
                  IF frame[s].statement = "insert"
                  THEN [@ EXCEPT !.inserts = @ + 1]
                  ELSE [@ EXCEPT !.selects = @ + 1]]
    /\ LET st == [NoStatement EXCEPT !.kind = frame[s].statement,
                                     !.state = "PENDING",
                                     !.payload = IF frame[s].statement = "insert"
                                                 THEN payload[s] ELSE None,
                                     !.limit = frame[s].limit]
       IN  CASE reply = "raise" ->
                    /\ frame' = [frame EXCEPT ![s].raised = Some(SdkError)]
                    /\ pc' = [pc EXCEPT ![s] = ReturnPoint(frame[s].ctx)]
                    /\ UNCHANGED storeVars
             [] reply = "nostatus" ->
                    /\ frame' = [frame EXCEPT ![s].status = None]
                    /\ pc' = [pc EXCEPT ![s] = "while"]
                    /\ UNCHANGED storeVars
             [] reply = "PENDING" ->
                    /\ statements' = [statements EXCEPT ![s] = st]
                    /\ frame' = [frame EXCEPT ![s].status = StatusOf(st)]
                    /\ pc' = [pc EXCEPT ![s] = "while"]
                    /\ UNCHANGED <<table, clock, written>>
             [] OTHER ->
                    /\ \E err \in ErrorsOf(reply) : Transition(s, st, reply, err)
                    /\ frame' = [frame EXCEPT ![s].status = StatusOf(statements'[s])]
                    /\ pc' = [pc EXCEPT ![s] = "while"]
    /\ UNCHANGED pageVars

Polling(status) == status.t = "some" /\ status.v.state \in {"PENDING", "RUNNING"}

\* while status and status.state in (PENDING, RUNNING):
\* variant: a loop that polls until the statement has succeeded
WhileUntilSucceeded(s) ==
    /\ pc[s] = "while"
    /\ pc' = [pc EXCEPT ![s] =
                 IF frame[s].status.t = "some" /\ frame[s].status.v.state # "SUCCEEDED"
                 THEN "get_statement" ELSE "check"]
    /\ UNCHANGED <<pageVars, frame, run, storeVars>>

While(s) ==
    /\ pc[s] = "while"
    /\ pc' = [pc EXCEPT ![s] =
                 IF Polling(frame[s].status) THEN "get_statement" ELSE "check"]
    /\ UNCHANGED <<pageVars, frame, run, storeVars>>

PollReplies == {"raise", "nostatus", "status"}

CountPoll(n) == IF n < MaxPolls THEN n + 1 ELSE n

\* time.sleep(0.2); current = get_statement(...); status = current.status
GetStatement(s, reply) ==
    /\ pc[s] = "get_statement"
    /\ CASE reply = "raise" ->
                /\ frame' = [frame EXCEPT ![s].raised = Some(SdkError),
                                          ![s].polls = CountPoll(@)]
                /\ pc' = [pc EXCEPT ![s] = ReturnPoint(frame[s].ctx)]
          [] reply = "nostatus" ->
                /\ frame' = [frame EXCEPT ![s].status = None,
                                          ![s].polls = CountPoll(@)]
                /\ pc' = [pc EXCEPT ![s] = "while"]
          [] OTHER ->
                /\ frame' = [frame EXCEPT ![s].status = StatusOf(statements[s]),
                                          ![s].polls = CountPoll(@)]
                /\ pc' = [pc EXCEPT ![s] = "while"]
    /\ UNCHANGED <<pageVars, run, storeVars>>

FailureMessage(status) ==
    IF status.t = "some" /\ status.v.error.t = "some" THEN status.v.error.v
    ELSE "SQL execution failed"

\* variant: a final check that raises on a FAILED status only
NotSucceededOnlyFailed(status) == status.t = "some" /\ status.v.state = "FAILED"

NotSucceeded(status) == status.t = "none" \/ status.v.state # "SUCCEEDED"

\* if not status or status.state != SUCCEEDED: raise RuntimeError(...); return
Check(s) ==
    /\ pc[s] = "check"
    /\ frame' = [frame EXCEPT ![s].raised =
                    IF NotSucceeded(frame[s].status)
                    THEN Some(FailureMessage(frame[s].status)) ELSE None]
    /\ pc' = [pc EXCEPT ![s] = ReturnPoint(frame[s].ctx)]
    /\ UNCHANGED <<pageVars, run, storeVars>>

(***************************************************************************)
(* The callers of execute_sql                                              *)
(***************************************************************************)
SaveError(message) == StError("Unable to save inspection: " \o message)

StSuccess == [kind |-> "success", text |-> "Inspection submitted successfully."]

StToast == [kind |-> "toast", text |-> "Latest inspection saved to the warehouse."]

StInfo == [kind |-> "info", text |-> "No equipment inspections have been recorded yet."]

StDataframe == [kind |-> "dataframe", text |-> "Recent submissions"]

\* try: insert_submission(payload) / except Exception as exc: / else:
\* variant: a caller that executes the insert again after a failure
InsertReturnRetry(s) ==
    /\ pc[s] = "insert_return"
    /\ IF frame[s].raised.t = "some"
       THEN /\ frame' = [frame EXCEPT ![s] =
                            [NoFrame EXCEPT !.ctx = "insert", !.statement = "insert"]]
            /\ pc' = [pc EXCEPT ![s] = "execute_statement"]
            /\ UNCHANGED <<shown, session_state>>
       ELSE /\ shown' = [shown EXCEPT ![s] = Append(@, StSuccess)]
            /\ session_state' = [session_state EXCEPT ![s] = TRUE]
            /\ pc' = [pc EXCEPT ![s] = "divider"]
            /\ UNCHANGED frame
    /\ UNCHANGED <<form, user_email, errors, payload, recent, uncaught, run, storeVars>>

InsertReturn(s) ==
    /\ pc[s] = "insert_return"
    /\ IF frame[s].raised.t = "some"
       THEN /\ shown' = [shown EXCEPT ![s] = Append(@, SaveError(frame[s].raised.v))]
            /\ UNCHANGED session_state
       ELSE /\ shown' = [shown EXCEPT ![s] = Append(@, StSuccess)]
            /\ session_state' = [session_state EXCEPT ![s] = TRUE]
    /\ pc' = [pc EXCEPT ![s] = "divider"]
    /\ UNCHANGED <<form, user_email, errors, payload, frame, recent, uncaught, run,
                   storeVars>>

\* st.divider(); the one-shot toast; recent = fetch_recent_submissions(limit)
Divider(s, limit) ==
    /\ pc[s] = "divider"
    /\ shown' = [shown EXCEPT ![s] = IF session_state[s] THEN Append(@, StToast) ELSE @]
    /\ session_state' = [session_state EXCEPT ![s] = FALSE]
    /\ frame' = [frame EXCEPT ![s] =
                    [NoFrame EXCEPT !.ctx = "fetch", !.statement = "select",
                                    !.limit = limit]]
    /\ pc' = [pc EXCEPT ![s] = "execute_statement"]
    /\ UNCHANGED <<form, user_email, errors, payload, recent, uncaught, run, storeVars>>

\* except Exception: return None; else read response.result.data_array
\* (inline: whether the response carries the rows itself)
FetchReturn(s, inline) ==
    /\ pc[s] = "fetch_return"
    /\ IF frame[s].raised.t = "some"
       THEN /\ recent' = [recent EXCEPT ![s] = None]
            /\ pc' = [pc EXCEPT ![s] = "render"]
       ELSE IF inline /\ Len(statements[s].result) > 0
            THEN /\ recent' = [recent EXCEPT ![s] = Some(statements[s].result)]
                 /\ pc' = [pc EXCEPT ![s] = "render"]
            ELSE /\ pc' = [pc EXCEPT ![s] = "get_chunk"]
                 /\ UNCHANGED recent
    /\ frame' = [frame EXCEPT ![s] = NoFrame]
    /\ UNCHANGED <<form, user_email, errors, payload, shown, session_state, uncaught,
                   run, storeVars>>

\* chunk = get_statement_result_chunk_n(...); return DataFrame(chunk.data_array or [])
\* The call is outside fetch_recent_submissions' try block: when it raises,
\* the exception leaves the function and ends the script run.
GetChunk(s, ok) ==
    /\ pc[s] = "get_chunk"
    /\ run' = [run EXCEPT ![s].chunks = @ + 1]
    /\ IF ok
       THEN /\ recent' = [recent EXCEPT ![s] = Some(statements[s].result)]
            /\ pc' = [pc EXCEPT ![s] = "render"]
            /\ UNCHANGED uncaught
       ELSE /\ uncaught' = [uncaught EXCEPT ![s] = Some(SdkError)]
            /\ pc' = [pc EXCEPT ![s] = "idle"]
            /\ UNCHANGED recent
    /\ UNCHANGED <<form, user_email, errors, payload, shown, session_state, frame,
                   storeVars>>

IsEmptyResult(r) == r.t = "none" \/ Len(r.v) = 0

\* if recent is None or recent.empty: st.info(...) else: st.dataframe(recent)
Render(s) ==
    /\ pc[s] = "render"
    /\ shown' = [shown EXCEPT ![s] =
                    Append(@, IF IsEmptyResult(recent[s]) THEN StInfo ELSE StDataframe)]
    /\ pc' = [pc EXCEPT ![s] = "idle"]
    /\ UNCHANGED <<form, user_email, errors, payload, session_state, frame, recent,
                   uncaught, run, storeVars>>

(***************************************************************************)
(* Specifications                                                          *)
(***************************************************************************)
Emails == {None, Some(<<"u">>)}

Limits == {1, DEFAULT_LIMIT}

States == {"PENDING", "RUNNING", "SUCCEEDED", "FAILED", "CANCELED", "CLOSED"}

\* One step of session s or of the warehouse on its statement.  env names
\* the sets the inputs and the environment's answers are drawn from.
Step(s, env) ==
    \/ \E f \in env.forms : Rerun(s, f)
    \/ \E e \in env.emails : GetCurrentUserEmail(s, e)
    \/ Submit(s)
    \/ \E r \in env.replies : ExecuteStatement(s, r)
    \/ While(s)
    \/ \E r \in env.polled : GetStatement(s, r)
    \/ Check(s)
    \/ InsertReturn(s)
    \/ \E l \in env.limits : Divider(s, l)
    \/ \E i \in env.inline : FetchReturn(s, i)
    \/ \E ok \in env.chunks : GetChunk(s, ok)
    \/ Render(s)
    \/ Warehouse(s, env.targets)

\* One session.  The forms: the button not pressed; a valid submission;
\* a submission violating one rule; a submission violating three.
MainForms ==
    {BaseForm,
     [BaseForm EXCEPT !.submitted = TRUE],
     [BaseForm EXCEPT !.submitted = TRUE, !.follow_up_required = TRUE,
                      !.follow_up_actions = <<" ">>],
     [BaseForm EXCEPT !.submitted = TRUE, !.facility_name = <<>>,
                      !.pressure_raw = <<"1", "x">>, !.follow_up_required = TRUE]}

MainEnv ==
    [forms |-> MainForms, emails |-> Emails, replies |-> Replies,
     polled |-> PollReplies, limits |-> Limits, inline |-> BOOLEAN,
     chunks |-> BOOLEAN, targets |-> States]

Next == Step("s1", MainEnv)

Spec == Init /\ [][Next]_vars

\* One session submitting the valid form, with the scheduling the liveness
\* of execute_sql rests on: the script keeps running and the warehouse
\* keeps working on a statement it has accepted.
LiveEnv ==
    [forms |-> {[BaseForm EXCEPT !.submitted = TRUE]}, emails |-> {Some(<<"u">>)},
     replies |-> Replies, polled |-> PollReplies, limits |-> {DEFAULT_LIMIT},
     inline |-> BOOLEAN, chunks |-> BOOLEAN, targets |-> States]

LiveNext == Step("s1", LiveEnv)

FairSpec ==
    /\ Init /\ [][LiveNext]_vars
    /\ WF_vars(While("s1"))
    /\ WF_vars(\E r \in PollReplies : GetStatement("s1", r))
    /\ WF_vars(Warehouse("s1", States))

\* Two sessions submitting the same valid form against the one table.
ConcForms == {[BaseForm EXCEPT !.submitted = TRUE]}

ConcEnv ==
    [forms |-> ConcForms, emails |-> {Some(<<"u">>)},
     replies |-> {"PENDING", "SUCCEEDED", "FAILED"}, polled |-> {"status"},
     limits |-> Limits, inline |-> {TRUE}, chunks |-> {TRUE},
     targets |-> {"SUCCEEDED"}]

ConcNext == \E s \in Sessions : Step(s, ConcEnv)

SpecConc == Init /\ [][ConcNext]_vars

\* One submission from the validation block to the return of
\* insert_submission, for every form of a set.
AfterIdentity == [NoCalls EXCEPT !.identity = 1]

SubmissionNext ==
    \/ Submit("s1")
    \/ ExecuteStatement("s1", "SUCCEEDED")
    \/ While("s1")
    \/ Check("s1")
    \/ InsertReturn("s1")

ValidDate == <<"2", "0", "2", "4", "-", "0", "2", "-", "2", "9">>

InvalidDate == <<"2", "0", "2", "3", "-", "0", "2", "-", "2", "9">>

RequiredTexts == {<<>>, <<" ", " ">>, <<" ", "S">>}

ValidateForms ==
    {[BaseForm EXCEPT !.submitted = TRUE, !.facility_name = fac, !.nurse_name = nur,
                      !.machine_id = mid, !.room_location = loc,
                      !.calibration_due_raw = cal, !.temperature_raw = temp,
                      !.pressure_raw = pres, !.follow_up_required = fu,
                      !.follow_up_actions = act]
        : fac \in RequiredTexts, nur \in RequiredTexts, mid \in RequiredTexts,
          loc \in RequiredTexts,
          cal \in {<<>>, <<" ">> \o ValidDate, InvalidDate, <<"x">>},
          temp \in {<<>>, <<" ">>, <<"4", ".", "5">>, <<"x">>, <<"n", "a", "n">>},
          pres \in {<<>>, <<"7">>, <<"1", "x">>},
          fu \in BOOLEAN, act \in {<<>>, <<" ">>, <<"c">>}}

InitValidate ==
    \E f \in ValidateForms : InitAt("if_submitted", f, None, AfterIdentity)

SpecValidate == InitValidate /\ [][SubmissionNext]_vars

NumAlphabet == {" ", "0", "4", ".", "-", "x", "n", "a", "i", "f"}

NumTexts == UNION {[1..k -> NumAlphabet] : k \in 0..MaxNumLen}

FewTexts == {<<>>, <<"7">>}

NumericForms ==
    {[BaseForm EXCEPT !.submitted = TRUE, !.temperature_raw = tp[1],
                      !.pressure_raw = tp[2]]
        : tp \in (NumTexts \X FewTexts) \cup (FewTexts \X NumTexts)}

InitNumeric ==
    \E f \in NumericForms : InitAt("if_submitted", f, None, AfterIdentity)

SpecNumeric == InitNumeric /\ [][SubmissionNext]_vars

(***************************************************************************)
(* Properties.  What the specification requires is stated here on its own  *)
(* terms: a text is blank when all its characters are spaces, and a rule   *)
(* is violated as section 4.1 of the specification words it.               *)
(***************************************************************************)
Range(seq) == {seq[i] : i \in 1..Len(seq)}

AllSpaces(text) == \A i \in 1..Len(text) : text[i] = " "

\* a text denotes a real number when it is a decimal numeral; the special
\* values inf and nan that float() accepts are not real numbers
IsRealNumber(text) == IsDecimalLiteral(text)

RuleOrder ==
    <<"facility", "inspector", "equipment", "location", "calibration",
      "temperature", "pressure", "follow_up">>

RuleViolated(r, f) ==
    CASE r = "facility" -> AllSpaces(f.facility_name)
      [] r = "inspector" -> AllSpaces(f.nurse_name)
      [] r = "equipment" -> AllSpaces(f.machine_id)
      [] r = "location" -> AllSpaces(f.room_location)
      [] r = "calibration" ->
             ~AllSpaces(f.calibration_due_raw) /\ ~IsIsoDate(Strip(f.calibration_due_raw))
      [] r = "temperature" ->
             ~AllSpaces(f.temperature_raw) /\ ~IsRealNumber(Strip(f.temperature_raw))
      [] r = "pressure" ->
             ~AllSpaces(f.pressure_raw) /\ ~IsRealNumber(Strip(f.pressure_raw))
      [] r = "follow_up" -> f.follow_up_required /\ AllSpaces(f.follow_up_actions)

ViolatedRules(f) == {r \in Range(RuleOrder) : RuleViolated(r, f)}

RuleMessage(r) ==
    CASE r = "facility" -> "Facility name is required."
      [] r = "inspector" -> "Inspector name is required."
      [] r = "equipment" -> "Equipment ID is required."
      [] r = "location" -> "Location is required."
      [] r = "calibration" -> CalibrationError
      [] r = "temperature" -> TemperatureError
      [] r = "pressure" -> PressureError
      [] r = "follow_up" -> FollowUpError

\* the validation block of session s has run on form[s]
Validated(s) ==
    form[s].submitted /\ pc[s] \notin {"get_current_user_email", "if_submitted"}

RowSatisfiesConstraints(row) ==
    /\ ~AllSpaces(row.facility_name)
    /\ ~AllSpaces(row.nurse_name)
    /\ ~AllSpaces(row.machine_id)
    /\ ~AllSpaces(row.room_location)
    /\ row.follow_up_required => ~AllSpaces(row.follow_up_actions)

InsertSucceeded(s) == StSuccess \in Range(shown[s])

\* C1: every row of the table has non-blank facility_name, nurse_name,
\* machine_id and room_location and, when follow_up_required, non-blank
\* follow_up_actions; a submission that violates one of these required-field
\* or follow-up rules never executes the insert statement.
ConstraintRules == {"facility", "inspector", "equipment", "location", "follow_up"}

ExpectedErrors(f) ==
    LET InViolated(r) == r \in ViolatedRules(f)
        violated == SelectSeq(RuleOrder, InViolated)
    IN  [i \in 1..Len(violated) |-> RuleMessage(violated[i])]

C2_OneMessagePerViolatedRule ==
    \A s \in Sessions :
        Validated(s) =>
            /\ errors[s] = ExpectedErrors(form[s])
            /\ (Len(errors[s]) = 0) <=> (ViolatedRules(form[s]) = {})
            /\ ~form[s].follow_up_required => FollowUpError \notin Range(errors[s])

\* C3: fetch_recent_submissions never lets an exception reach its caller:
\* no script run is ended by an exception raised inside it.
C3_FetchNeverPropagates == \A s \in Sessions : uncaught[s].t = "none"

\* C4: execute_sql returns normally from the insert only when the last
\* status it saw is SUCCEEDED; otherwise it raises, with the warehouse's
\* error message if there is one, the failed call's own message if the call
\* failed, and "SQL execution failed" otherwise.  The caller then shows
\* exactly one error, executes the insert no second time, shows no success
\* message and leaves the success flag unset.
ExpectedFailure(st) ==
    IF st.t = "unset" \/ Polling(st) THEN SdkError
    ELSE IF st.t = "some" /\ st.v.error.t = "some" THEN st.v.error.v
    ELSE "SQL execution failed"

SaveErrorShown(s) ==
    Len(errors[s]) = 0 /\ \E i \in 1..Len(shown[s]) : shown[s][i].kind = "error"

C4_InsertFailureSurfacedOnce ==
    \A s \in Sessions :
        /\ run[s].inserts <= 1
        /\ pc[s] = "insert_return" =>
               /\ (frame[s].raised.t = "none")
                      <=> (frame[s].status.t = "some"
                             /\ frame[s].status.v.state = "SUCCEEDED")
               /\ frame[s].raised.t = "some"
                      => frame[s].raised.v = ExpectedFailure(frame[s].status)
        /\ (pc[s] = "divider" /\ frame[s].ctx = "insert") =>
               IF frame[s].raised.t = "some"
               THEN shown[s] = <<SaveError(frame[s].raised.v)>> /\ ~session_state[s]
               ELSE shown[s] = <<StSuccess>> /\ session_state[s]
        /\ SaveErrorShown(s) =>
               /\ Cardinality({i \in 1..Len(shown[s]) : shown[s][i].kind = "error"}) = 1
               /\ \A i \in 1..Len(shown[s]) : shown[s][i].kind \notin {"success", "toast"}
               /\ ~session_state[s]
               /\ run[s].inserts = 1

C4_Witness ==
    /\ pc["s1"] = "idle"
    /\ shown["s1"] = <<SaveError("warehouse error"), StInfo>>
    /\ run["s1"].inserts = 1

\* C5: a run executes the insert statement at most once and the
\* recent-submissions query at most once, the query only after
\* insert_submission has returned or raised; a run whose insert succeeded
\* and that reached its end executed the query exactly once.
InsertPhase(s) ==
    \/ pc[s] \in {"get_current_user_email", "if_submitted", "insert_return"}
    \/ pc[s] \in {"execute_statement", "while", "get_statement", "check"}
           /\ frame[s].ctx = "insert"

C5_OneWriteThenOneRead ==
    \A s \in Sessions :
        /\ run[s].inserts <= 1
        /\ run[s].selects <= 1
        /\ run[s].selects = 1 => ~InsertPhase(s)
        /\ (InsertSucceeded(s) /\ pc[s] = "idle") => run[s].selects = 1

C5_Witness ==
    /\ InsertSucceeded("s1") /\ pc["s1"] = "idle"
    /\ run["s1"].inserts = 1 /\ run["s1"].selects = 1
    /\ recent["s1"].t = "some"

\* C6 (as claimed): when validation fails, its errors are reported before any
\* external call of that run: neither the identity lookup nor a warehouse
\* statement has been made when they are shown.
ErrorsReported(s) == Validated(s) /\ Len(errors[s]) > 0

C6_NoCallBeforeErrorsReported ==
    \A s \in Sessions :
        (ErrorsReported(s) /\ pc[s] = "divider")
            => run[s].identity + run[s].inserts + run[s].selects = 0

\* C6 (amended): when validation fails, the run never executes the insert
\* and has executed no warehouse statement when the errors are shown; the
\* identity lookup has been made before, and the recent-submissions query
\* is executed once afterwards.
C6_NoStatementBeforeErrorsReported ==
    \A s \in Sessions :
        ErrorsReported(s) =>
            /\ run[s].inserts = 0
            /\ run[s].identity = 1
            /\ pc[s] = "divider" => run[s].selects = 0
            /\ pc[s] = "idle" => run[s].selects = 1

C6_Witness ==
    /\ ErrorsReported("s1") /\ pc["s1"] = "idle"
    /\ run["s1"].selects = 1 /\ run["s1"].inserts = 0
    /\ Len(shown["s1"]) = 4

\* C7 (as claimed): after a run's insert succeeded, the table its fetch
\* returns has the record just written as its first row, whatever other
\* sessions do.
C7_JustWrittenIsNewest ==
    \A s \in Sessions :
        (InsertSucceeded(s) /\ recent[s].t = "some")
            => /\ Len(recent[s].v) >= 1
               /\ recent[s].v[1] = SelectColumns(written[s].v)

\* C7 (amended): a fetch returns at most limit rows in descending
\* submitted_at order; after a run's insert succeeded, the record just
\* written is the first of them provided no other row of the table carries
\* a submitted_at at or after its own.
NoLaterRow(s) ==
    \A i \in 1..Len(table) :
        table[i] # written[s].v => table[i].submitted_at < written[s].v.submitted_at

C7_NewestFirstUnlessOvertaken ==
    \A s \in Sessions :
        recent[s].t = "some" =>
            /\ Len(recent[s].v) <= statements[s].limit
            /\ \A i \in 1..(Len(recent[s].v) - 1) :
                   recent[s].v[i].submitted_at >= recent[s].v[i + 1].submitted_at
            /\ (InsertSucceeded(s) /\ NoLaterRow(s))
                   => /\ Len(recent[s].v) >= 1
                      /\ recent[s].v[1] = SelectColumns(written[s].v)

C7_Witness ==
    \E s \in Sessions :
        /\ InsertSucceeded(s) /\ recent[s].t = "some" /\ NoLaterRow(s)
        /\ Len(table) = 2 /\ table[1].submitted_at < table[2].submitted_at
        /\ statements[s].limit = 1
        /\ recent[s].v = <<SelectColumns(written[s].v)>>

\* C8: every step leaves the rows already in the table as they are and adds
\* one row, built from the statement's parameters, for each insert statement
\* that succeeds in it, whether or not an identical row is already there.
Committed(st) == st.kind = "insert" /\ st.state \in Succeeded

NewlyCommitted == {s \in Sessions : Committed(statements'[s]) /\ ~Committed(statements[s])}

AppendStep ==
    /\ Len(table') = Len(table) + Cardinality(NewlyCommitted)
    /\ SubSeq(table', 1, Len(table)) = table
    /\ \A s \in NewlyCommitted :
           table'[Len(table')] = InsertValues(payload[s].v, clock')

C8_AppendOnly == [][AppendStep]_vars

SameFields(a, b) == [a EXCEPT !.submitted_at = 0] = [b EXCEPT !.submitted_at = 0]

C8_Witness ==
    /\ Len(table) = 2
    /\ SameFields(table[1], table[2])
    /\ table[1].submitted_at # table[2].submitted_at

\* C9: for temperature and pressure alike: a blank text raises no error and
\* is stored as NULL; a text that parses as a number raises no error and the
\* stored double is the parsed number; any other text raises the field's
\* error and nothing is stored.
NumericFieldHandled(s, raw, message, column) ==
    IF AllSpaces(raw)
    THEN /\ message \notin Range(errors[s])
         /\ written[s].t = "some" => written[s].v[column].t = "null"
    ELSE IF IsRealNumber(Strip(raw))
    THEN /\ message \notin Range(errors[s])
         /\ written[s].t = "some" =>
                /\ written[s].v[column].t = "double"
                /\ written[s].v[column].v = FloatOf(Strip(raw))
    ELSE /\ message \in Range(errors[s])
         /\ written[s].t = "none" /\ run[s].inserts = 0 /\ table = <<>>

C9_NumericFieldsStoredAsParsed ==
    \A s \in Sessions :
        Validated(s) =>
            /\ NumericFieldHandled(s, form[s].temperature_raw, TemperatureError,
                                   "temperature_celsius")
            /\ NumericFieldHandled(s, form[s].pressure_raw, PressureError,
                                   "pressure_kpa")

\* C10: execute_sql polls only while the last status it saw is PENDING or
\* RUNNING and leaves the loop for its final check only on another status
\* or a missing one; as long as the script keeps running and the warehouse
\* keeps working on the statement, every call leaves the loop.
InLoop(s) == pc[s] \in {"while", "get_statement"}

PollsOnlyWhileUnfinished ==
    \A s \in Sessions :
        /\ pc[s] = "get_statement" => Polling(frame[s].status)
        /\ pc[s] = "check" => ~Polling(frame[s].status)

C10_PollLoop ==
    /\ []PollsOnlyWhileUnfinished
    /\ InLoop("s1") ~> ~InLoop("s1")

C10_Witness ==
    /\ pc["s1"] = "check"
    /\ frame["s1"].polls = MaxPolls
    /\ frame["s1"].status.t = "some" /\ frame["s1"].status.v.state = "SUCCEEDED"

=============================================================================
